---- MODULE Spec2Model ----
(***************************************************************************)
(* The conversation store of the WhatsApp simulator (App.tsx and           *)
(* context/ChatContext.tsx), the forms that drive it (ParticipantManager,  *)
(* ChatInput, ChatSettings, PhoneStatusSettings, the date settings) and    *)
(* the rendering pipeline of components/ChatPreview.tsx.                   *)
(*                                                                         *)
(* Text is modelled by TLA+ strings (TLC evaluates Len, Head, Tail, SubSeq *)
(* and \o on them).  null and undefined are the reserved strings Null and  *)
(* Undefined, which are in none of the input alphabets.  A Date is the     *)
(* number of half-days since an arbitrary origin, so that two different    *)
(* timestamps can fall on the same calendar day.                           *)
(***************************************************************************)
EXTENDS Integers, Sequences, FiniteSets, TLC

\* ------------------------------------------------------------------ bounds
MaxParticipants == 3
MaxMessages == 2
MaxUuid == 3
MaxPreviewMessages == 4
MaxReplies == 1
MaxInputParticipants == 1
MaxInputMessages == 1
MaxReplyMessages == 3

\* ------------------------------------------------------- values and inputs
Null == "<null>"
Undefined == "<undefined>"
SystemDate == "system_date"

\* JavaScript truthiness of a string | null | undefined value
Truthy(v) == v \notin {"", Null, Undefined}

\* the null value of a variable of type Participant | null
NullParticipant == [id |-> Null, name |-> Null, avatar |-> Null]

NameInputs == {"", " ", "Ann"}
AvatarInputs == {"", "a.png"}
LabelInputs == {"", " ", "Today"}
TextInputs == {"hi"}
\* a Date, in half-days: 0 and 1 fall on one calendar day, 2 and 4 on later ones
Timestamps == {0, 1}

RECURSIVE TrimStart(_)
TrimStart(s) == IF s # "" /\ Head(s) = " " THEN TrimStart(Tail(s)) ELSE s

RECURSIVE TrimEnd(_)
TrimEnd(s) ==
    IF s # "" /\ SubSeq(s, Len(s), Len(s)) = " "
    THEN TrimEnd(SubSeq(s, 1, Len(s) - 1))
    ELSE s

\* String.prototype.trim
Trim(s) == TrimEnd(TrimStart(s))

\* the n-th identifier handed out by uuidv4: fresh, never repeated
uuidv4(n) == "id-" \o ToString(n)

\* ------------------------------------------------------------------- state
VARIABLES
    store,                \* which component owns the conversation: "App" or "ChatProvider"
    state,                \* the WhatsAppState held by useState
    selectedParticipant,  \* App: sender selected in the chat input
    customDateText,       \* App: text of the custom date field
    uuidCount,            \* number of identifiers uuidv4 has handed out
    previewOnRight,       \* App: position of the preview
    darkMode,             \* the "dark" class of the document element
    showDateDividers,     \* App: automatic date dividers
    chatBackground,       \* App: custom background URL
    localStorage,         \* the key-value slots of window.localStorage
    props,                \* ChatPreview: the props of the current render
    rendered,             \* ChatPreview: what the current render shows
    fileInput,            \* ChatInput: selectedFile, imageData and the FileReaders at work
    avatarErrors,         \* ParticipantManager: error events of avatar images
                          \* that the browser has raised and not yet delivered
    lastOp                \* the handler that ran last, its argument and, for a
                          \* removal, the meId of the render it ran in

convVars == <<state, selectedParticipant, customDateText, uuidCount>>
prefVars == <<previewOnRight, darkMode, showDateDividers, chatBackground, localStorage>>
viewVars == <<props, rendered>>
asyncVars == <<fileInput, avatarErrors>>
vars == <<store, convVars, prefVars, viewVars, asyncVars, lastOp>>

InitialState ==
    [participants |-> <<>>,
     messages     |-> <<>>,
     chatSettings |-> [mode |-> "group", title |-> "Group Chat", avatar |-> Null],
     meId         |-> Null,
     phoneStatus  |-> [batteryLevel |-> 100, customTime |-> Null]]

Op(name, arg) == [name |-> name, arg |-> arg, me |-> Null]

\* JSON.stringify and JSON.parse of a boolean preference; a text that is not
\* JSON (the empty text included) makes JSON.parse throw: ok is FALSE
JSONstringify(b) == IF b THEN "true" ELSE "false"

JSONparse(text) ==
    IF text = "true" THEN [ok |-> TRUE, value |-> TRUE]
    ELSE IF text = "false" THEN [ok |-> TRUE, value |-> FALSE]
    ELSE [ok |-> FALSE, value |-> FALSE]

\* useState(() => { const saved = getItem('previewOnRight'); ... })
InitialPreviewOnRight(storage) ==
    IF Truthy(storage.previewOnRight)
    THEN JSONparse(storage.previewOnRight).value
    ELSE FALSE

\* the effect that initialises dark mode from localStorage
InitialDarkMode(storage) ==
    IF storage.darkMode # Null THEN JSONparse(storage.darkMode).value ELSE TRUE

\* a slot that was never written reads as null
EmptyStorage == [previewOnRight |-> Null, darkMode |-> Null]

\* the props ChatPreview has before its first render: nothing to show
NoProps ==
    [messages |-> <<>>, participants |-> <<>>, mode |-> "group", meId |-> Null,
     showDateDividers |-> TRUE]

NotRendered == [mounted |-> FALSE]

\* ChatInput before a file is chosen: useState(null) twice, no FileReader
NoFile == [selectedFile |-> Null, imageData |-> Null, reading |-> {}]

\* what App holds after mounting with the given localStorage: the useState
\* defaults, the two preferences read from their slots, and the slot the
\* first run of the previewOnRight effect writes
\* When JSON.parse throws in the useState initialiser the first render fails
\* and no effect runs; when it throws in the dark mode effect the effects
\* before it have run.  Nothing catches the exception: threw is TRUE, App is
\* unmounted and the document element has no "dark" class.
Mounted(storage) ==
    LET renderThrows == /\ Truthy(storage.previewOnRight)
                        /\ ~JSONparse(storage.previewOnRight).ok
        effectThrows == /\ ~renderThrows
                        /\ storage.darkMode # Null
                        /\ ~JSONparse(storage.darkMode).ok
    IN  [threw |-> renderThrows \/ effectThrows,
         state |-> InitialState,
         selectedParticipant |-> NullParticipant,
         customDateText |-> "",
         showDateDividers |-> TRUE,
         chatBackground |-> "",
         previewOnRight |-> InitialPreviewOnRight(storage),
         darkMode |-> IF renderThrows \/ effectThrows THEN FALSE
                      ELSE InitialDarkMode(storage),
         localStorage |-> IF renderThrows THEN storage
                          ELSE [storage EXCEPT !.previewOnRight =
                                   JSONstringify(InitialPreviewOnRight(storage))]]

\* the state of a session that starts with the given localStorage
SessionStart(storage) ==
    /\ state = Mounted(storage).state
    /\ selectedParticipant = Mounted(storage).selectedParticipant
    /\ customDateText = Mounted(storage).customDateText
    /\ showDateDividers = Mounted(storage).showDateDividers
    /\ chatBackground = Mounted(storage).chatBackground
    /\ previewOnRight = Mounted(storage).previewOnRight
    /\ darkMode = Mounted(storage).darkMode
    /\ localStorage = Mounted(storage).localStorage
    /\ fileInput = NoFile
    /\ avatarErrors = {}

Init ==
    /\ store \in {"App", "ChatProvider"}
    /\ SessionStart(EmptyStorage)
    /\ uuidCount = 0
    /\ props = NoProps
    /\ rendered = NotRendered
    /\ lastOp = Op("init", "")

ParticipantIds(st) == {st.participants[i].id : i \in 1 .. Len(st.participants)}

\* --------------------------------------------------- App.tsx: the handlers
\* Every handler runs inside one React event: its setState updaters are
\* queued and applied in order to the previous state before the next render,
\* while the conditions of the handler read the state of the last render.

handleChatModeChange(prev, mode) ==
    [prev EXCEPT !.chatSettings = [@ EXCEPT !.mode = mode]]

\* mutant: the id of a new participant is derived from the size of the list
handleAddParticipant_countsIds(st, sel, newParticipant, id) ==
    LET participant == [id |-> uuidv4(Len(st.participants) + 1),
                        name |-> newParticipant.name,
                        avatar |-> newParticipant.avatar]
    IN  [state |-> [st EXCEPT !.participants = Append(@, participant)],
         selectedParticipant |-> IF sel = NullParticipant THEN participant ELSE sel]

handleAddParticipant(st, sel, newParticipant, id) ==
    LET participant == [id |-> id, name |-> newParticipant.name,
                        avatar |-> newParticipant.avatar]
    IN  [state |-> [st EXCEPT !.participants = Append(@, participant)],
         selectedParticipant |-> IF sel = NullParticipant THEN participant ELSE sel]

\* mutant: the removal forgets to clear meId
handleRemoveParticipant_keepsMe(st, sel, id) ==
    [state |-> [st EXCEPT !.participants = SelectSeq(@, LAMBDA p : p.id # id)],
     selectedParticipant |-> IF sel.id = id THEN NullParticipant ELSE sel]

\* mutant: a removal that leaves two participants switches to private mode
handleRemoveParticipant_switchesMode(st, sel, id) ==
    LET s1 == [st EXCEPT !.participants = SelectSeq(@, LAMBDA p : p.id # id)]
        s2 == IF st.meId = id THEN [s1 EXCEPT !.meId = Null] ELSE s1
    IN  [state |-> IF Len(s2.participants) = 2
                   THEN handleChatModeChange(s2, "private") ELSE s2,
         selectedParticipant |-> IF sel.id = id THEN NullParticipant ELSE sel]

handleRemoveParticipant(st, sel, id) ==
    LET s1 == [st EXCEPT !.participants = SelectSeq(@, LAMBDA p : p.id # id)]
        s2 == IF st.meId = id THEN [s1 EXCEPT !.meId = Null] ELSE s1
    IN  [state |-> s2,
         selectedParticipant |-> IF sel.id = id THEN NullParticipant ELSE sel]

\* mutant: a participant that is not in the list is added to it
handleUpdateParticipant_upsert(st, sel, updatedParticipant) ==
    [state |-> IF updatedParticipant.id \in ParticipantIds(st)
               THEN [st EXCEPT !.participants =
                        [i \in 1 .. Len(@) |->
                            IF @[i].id = updatedParticipant.id
                            THEN updatedParticipant ELSE @[i]]]
               ELSE [st EXCEPT !.participants = Append(@, updatedParticipant)],
     selectedParticipant |->
         IF sel.id = updatedParticipant.id THEN updatedParticipant ELSE sel]

\* mutant: the selected sender is not replaced by the updated participant
handleUpdateParticipant_staleSelection(st, sel, updatedParticipant) ==
    [state |-> [st EXCEPT !.participants =
                   [i \in 1 .. Len(@) |->
                       IF @[i].id = updatedParticipant.id
                       THEN updatedParticipant ELSE @[i]]],
     selectedParticipant |-> sel]

handleUpdateParticipant(st, sel, updatedParticipant) ==
    [state |-> [st EXCEPT !.participants =
                   [i \in 1 .. Len(@) |->
                       IF @[i].id = updatedParticipant.id
                       THEN updatedParticipant ELSE @[i]]],
     selectedParticipant |->
         IF sel.id = updatedParticipant.id THEN updatedParticipant ELSE sel]

\* mutant: no automatic switch to private mode
handleSetAsMe_noSwitch(st, id) == [st EXCEPT !.meId = id]

handleSetAsMe(st, id) ==
    LET s1 == [st EXCEPT !.meId = id]
    IN  IF Len(st.participants) = 2 /\ st.chatSettings.mode # "private"
        THEN handleChatModeChange(s1, "private")
        ELSE s1

\* mutant: the new message is inserted in timestamp order
handleMessageSend_sorted(st, messageData, id) ==
    LET m == [messageData EXCEPT !.id = id]
        earlier == SelectSeq(st.messages, LAMBDA x : x.timestamp <= m.timestamp)
        later == SelectSeq(st.messages, LAMBDA x : x.timestamp > m.timestamp)
    IN  [st EXCEPT !.messages = earlier \o <<m>> \o later]

handleMessageSend(st, messageData, id) ==
    [st EXCEPT !.messages = Append(@, [messageData EXCEPT !.id = id])]

\* mutant: the label is not trimmed before the emptiness test
handleAddDateMessage_noTrim(st, text, id, now) ==
    IF ~Truthy(text)
    THEN [state |-> st, customDateText |-> text]
    ELSE [state |-> [st EXCEPT !.messages = Append(@,
                       [id |-> id, senderId |-> SystemDate, text |-> text,
                        timestamp |-> now, type |-> Undefined,
                        audioDuration |-> Undefined, imageUrl |-> Undefined,
                        imageCaption |-> Undefined, replyToId |-> Undefined,
                        replyToPreview |-> Undefined, replyToType |-> Undefined])],
          customDateText |-> ""]

\* Add a system date message
handleAddDateMessage(st, text, id, now) ==
    IF ~Truthy(Trim(text))
    THEN [state |-> st, customDateText |-> text]
    ELSE LET dateMessage == [id |-> id, senderId |-> SystemDate, text |-> text,
                             timestamp |-> now, type |-> Undefined,
                             audioDuration |-> Undefined, imageUrl |-> Undefined,
                             imageCaption |-> Undefined, replyToId |-> Undefined,
                             replyToPreview |-> Undefined, replyToType |-> Undefined]
         IN  [state |-> [st EXCEPT !.messages = Append(@, dateMessage)],
              customDateText |-> ""]

handleChatTitleChange(prev, title) ==
    [prev EXCEPT !.chatSettings = [@ EXCEPT !.title = title]]

handleChatAvatarChange(prev, avatar) ==
    [prev EXCEPT !.chatSettings = [@ EXCEPT !.avatar = avatar]]

handlePhoneStatusChange(prev, phoneStatus) ==
    [prev EXCEPT !.phoneStatus = phoneStatus]

\* ------------------------------------- context/ChatContext.tsx: the commands
\* mutant: the first participant added becomes "me"
addParticipant_claimsMe(prev, newParticipant, id) ==
    [prev EXCEPT !.participants =
                     Append(@, [id |-> id, name |-> newParticipant.name,
                                avatar |-> newParticipant.avatar]),
                 !.meId = IF prev.meId = Null /\ prev.participants = <<>>
                          THEN id ELSE prev.meId]

addParticipant(prev, newParticipant, id) ==
    [prev EXCEPT !.participants =
        Append(@, [id |-> id, name |-> newParticipant.name,
                   avatar |-> newParticipant.avatar])]

\* mutant: the removal keeps meId
removeParticipant_keepsMe(prev, id) ==
    [prev EXCEPT !.participants = SelectSeq(@, LAMBDA p : p.id # id)]

removeParticipant(prev, id) ==
    [prev EXCEPT !.participants = SelectSeq(@, LAMBDA p : p.id # id),
                 !.meId = IF prev.meId = id THEN Null ELSE prev.meId]

\* mutant: a participant that is not in the list is added to it
updateParticipant_upsert(prev, participant) ==
    IF \E i \in 1 .. Len(prev.participants) : prev.participants[i].id = participant.id
    THEN [prev EXCEPT !.participants =
             [i \in 1 .. Len(@) |->
                 IF @[i].id = participant.id THEN participant ELSE @[i]]]
    ELSE [prev EXCEPT !.participants = Append(@, participant)]

updateParticipant(prev, participant) ==
    [prev EXCEPT !.participants =
        [i \in 1 .. Len(@) |->
            IF @[i].id = participant.id THEN participant ELSE @[i]]]

setAsMe(prev, id) ==
    [prev EXCEPT !.meId = id,
                 !.chatSettings =
                     [@ EXCEPT !.mode = IF Len(prev.participants) = 2
                                        THEN "private" ELSE prev.chatSettings.mode]]

sendMessage(prev, messageData, id) ==
    [prev EXCEPT !.messages = Append(@, [messageData EXCEPT !.id = id])]

\* shallow merge of a Partial<...> into a sub-record
Merge(rec, partial) ==
    [k \in DOMAIN rec |-> IF k \in DOMAIN partial THEN partial[k] ELSE rec[k]]

updateChatSettings(prev, settings) ==
    [prev EXCEPT !.chatSettings = Merge(@, settings)]

updatePhoneStatus(prev, status) ==
    [prev EXCEPT !.phoneStatus = Merge(@, status)]

\* ------------------------------------------- components/ChatInput.tsx: form
\* the local state of the form at the moment the user clicks "Send Message"
ChatInputForms ==
    [messageType : {"text"}, messageText : TextInputs \cup {""},
     audioDuration : {""}, uploadMethod : {"file"}, imageUrl : {""},
     imageCaption : {""}, selectedFile : {Null}, imageData : {Null}]
    \cup
    [messageType : {"audio"}, messageText : {""},
     audioDuration : {"", "0:05"}, uploadMethod : {"file"}, imageUrl : {""},
     imageCaption : {""}, selectedFile : {Null}, imageData : {Null}]
    \cup
    [messageType : {"image"}, messageText : {""},
     audioDuration : {""}, uploadMethod : {"url"}, imageUrl : {"", "p.png"},
     imageCaption : {"", "cap"}, selectedFile : {Null}, imageData : {Null}]
    \cup
    [messageType : {"image"}, messageText : {""},
     audioDuration : {""}, uploadMethod : {"file"}, imageUrl : {""},
     imageCaption : {""}, selectedFile : {"f.png"}, imageData : {Null, "data:f"}]
    \cup
    [messageType : {"image"}, messageText : {""},
     audioDuration : {""}, uploadMethod : {"file"}, imageUrl : {""},
     imageCaption : {""}, selectedFile : {Null}, imageData : {Null}]

TextForms == {f \in ChatInputForms : f.messageType = "text"}

\* the disabled attribute of the "Send Message" button
SendDisabled(form, sel) ==
    \/ sel = NullParticipant
    \/ form.messageType = "text" /\ ~Truthy(Trim(form.messageText))
    \/ form.messageType = "audio" /\ ~Truthy(form.audioDuration)
    \/ form.messageType = "image" /\ form.uploadMethod = "url" /\ ~Truthy(form.imageUrl)
    \/ form.messageType = "image" /\ form.uploadMethod = "file" /\ ~Truthy(form.selectedFile)

\* ChatInput.handleSubmit: the draft handed to onMessageSend, or a rejection
ChatInput_handleSubmit(form, sel, now) ==
    IF sel = NullParticipant THEN [sent |-> FALSE]
    ELSE IF form.messageType = "audio" /\ ~Truthy(form.audioDuration) THEN [sent |-> FALSE]
    ELSE IF form.messageType = "image" /\ form.uploadMethod = "url" /\ ~Truthy(form.imageUrl)
         THEN [sent |-> FALSE]
    ELSE IF form.messageType = "image" /\ form.uploadMethod = "file" /\ ~Truthy(form.selectedFile)
         THEN [sent |-> FALSE]
    ELSE [sent |-> TRUE,
          message |->
            [id |-> Undefined,
             senderId |-> sel.id,
             text |-> IF form.messageType = "text" THEN form.messageText
                      ELSE IF form.messageType = "audio" THEN "Audio message"
                      ELSE IF Truthy(form.imageCaption) THEN form.imageCaption ELSE "Image",
             timestamp |-> now,
             type |-> form.messageType,
             audioDuration |-> IF form.messageType = "audio"
                               THEN form.audioDuration ELSE Undefined,
             imageUrl |-> IF form.messageType = "image"
                          THEN (IF form.uploadMethod = "file"
                                THEN form.imageData ELSE form.imageUrl)
                          ELSE Undefined,
             imageCaption |-> IF form.messageType = "image" /\ Truthy(form.imageCaption)
                              THEN form.imageCaption ELSE Undefined,
             replyToId |-> Undefined, replyToPreview |-> Undefined,
             replyToType |-> Undefined]]

\* -------------------------------- components/ParticipantManager.tsx: form
\* mutant: the name is not trimmed before the emptiness test
ParticipantManager_handleSubmit_noTrim(name, avatarUrl) ==
    IF ~Truthy(name) THEN [submitted |-> FALSE]
    ELSE [submitted |-> TRUE,
          participant |-> [name |-> name,
                           avatar |-> IF Truthy(Trim(avatarUrl))
                                      THEN Trim(avatarUrl) ELSE Null]]

\* ParticipantManager.handleSubmit: the participant handed to onAddParticipant
ParticipantManager_handleSubmit(name, avatarUrl) ==
    IF ~Truthy(Trim(name)) THEN [submitted |-> FALSE]
    ELSE [submitted |-> TRUE,
          participant |-> [name |-> name,
                           avatar |-> IF Truthy(Trim(avatarUrl))
                                      THEN Trim(avatarUrl) ELSE Null]]

\* ------------------------------ components/ChatPreview.tsx: the rendering
\* Array indices are 1-based here; index 0 stands for "not found".

\* the value of participants.find(...) when nothing matches
UndefinedParticipant == [id |-> Undefined, name |-> Undefined, avatar |-> Undefined]

\* Array.prototype.findIndex, 0 when no element has the id
FindIndexById(array, id) ==
    IF \E i \in 1 .. Len(array) : array[i].id = id
    THEN CHOOSE i \in 1 .. Len(array) :
             /\ array[i].id = id
             /\ \A j \in 1 .. i - 1 : array[j].id # id
    ELSE 0

getParticipantById(participants, id) ==
    LET i == FindIndexById(participants, id)
    IN  IF i = 0 THEN UndefinedParticipant ELSE participants[i]

\* the message being replied to: its index in messages, 0 when undefined
getRepliedMessage(messages, replyToId) == FindIndexById(messages, replyToId)

\* mutant: the text is cut as soon as it is longer than the 47 characters kept
getMessagePreview_eager(message) ==
    IF message.type = "audio" THEN "Voice message"
    ELSE IF message.type = "image"
         THEN (IF Truthy(message.imageCaption) THEN message.imageCaption ELSE "Photo")
    ELSE IF Len(message.text) > 47
         THEN SubSeq(message.text, 1, 47) \o "..."
         ELSE message.text

\* a preview text for a message
getMessagePreview(message) ==
    IF message.type = "audio" THEN "Voice message"
    ELSE IF message.type = "image"
         THEN (IF Truthy(message.imageCaption) THEN message.imageCaption ELSE "Photo")
    ELSE IF Len(message.text) > 50
         THEN SubSeq(message.text, 1, 47) \o "..."
         ELSE message.text

\* Date.prototype.toDateString: the calendar day of a timestamp, as text
toDateString(timestamp) == "day-" \o ToString(timestamp \div 2)

isSystemDateMessage(message) == message.senderId = SystemDate

\* mutant: nothing is collapsed
processedMessages_noCollapse(messages) == messages

\* mutant: every system date message is dropped
processedMessages_dropsMarkers(messages) ==
    SelectSeq(messages, LAMBDA m : ~isSystemDateMessage(m))

\* mutant: only a marker that follows a single marker is dropped
RECURSIVE processedMessages_pairs(_)
processedMessages_pairs(messages) ==
    IF messages = <<>> THEN <<>>
    ELSE LET index == Len(messages)
             result == processedMessages_pairs(SubSeq(messages, 1, index - 1))
         IN  IF /\ isSystemDateMessage(messages[index])
                /\ index > 1
                /\ isSystemDateMessage(messages[index - 1])
                /\ ~(index > 2 /\ isSystemDateMessage(messages[index - 2]))
             THEN result
             ELSE Append(result, messages[index])

\* messages.reduce(...): a system date message is skipped when the message
\* before it in the array is a system date message as well
RECURSIVE processedMessages(_)
processedMessages(messages) ==
    IF messages = <<>> THEN <<>>
    ELSE LET index == Len(messages)
             result == processedMessages(SubSeq(messages, 1, index - 1))
         IN  IF /\ isSystemDateMessage(messages[index])
                /\ index > 1
                /\ isSystemDateMessage(messages[index - 1])
             THEN result
             ELSE Append(result, messages[index])

\* mutant: system date messages do not switch the grouping off
shouldGroupByDate_ignoresMarkers(processed, showDividers) == showDividers

shouldGroupByDate(processed, showDividers) ==
    showDividers /\ ~\E i \in 1 .. Len(processed) : isSystemDateMessage(processed[i])

\* the position of a key among the entries of the groups object, 0 if absent
GroupIndex(groups, dateStr) ==
    IF \E k \in 1 .. Len(groups) : groups[k].dateStr = dateStr
    THEN CHOOSE k \in 1 .. Len(groups) : groups[k].dateStr = dateStr
    ELSE 0

\* processedMessages.reduce(...) into an object keyed by date: the entries of
\* the object, in the order Object.entries lists them (insertion order)
RECURSIVE GroupByDate(_)
GroupByDate(processed) ==
    IF processed = <<>> THEN <<>>
    ELSE LET message == processed[Len(processed)]
             groups == GroupByDate(SubSeq(processed, 1, Len(processed) - 1))
             dateStr == toDateString(message.timestamp)
             k == GroupIndex(groups, dateStr)
         IN  IF isSystemDateMessage(message) THEN groups
             ELSE IF k = 0
                  THEN Append(groups, [dateStr |-> dateStr, messages |-> <<message>>])
                  ELSE [groups EXCEPT ![k].messages = Append(@, message)]

\* mutant: the date groups are listed in chronological order
messagesByDate_sorted(processed, showDividers) ==
    IF shouldGroupByDate(processed, showDividers)
    THEN SortSeq(GroupByDate(processed),
                 LAMBDA g, h : g.messages[1].timestamp \div 2 < h.messages[1].timestamp \div 2)
    ELSE <<[dateStr |-> "all", messages |-> processed]>>

\* mutant: a message is put first in the group of its date
messagesByDate_unshift(processed, showDividers) ==
    IF shouldGroupByDate(processed, showDividers)
    THEN [g \in 1 .. Len(GroupByDate(processed)) |->
            [GroupByDate(processed)[g] EXCEPT !.messages =
                [i \in 1 .. Len(@) |-> @[Len(@) + 1 - i]]]]
    ELSE <<[dateStr |-> "all", messages |-> processed]>>

messagesByDate(processed, showDividers) ==
    IF shouldGroupByDate(processed, showDividers)
    THEN GroupByDate(processed)
    ELSE <<[dateStr |-> "all", messages |-> processed]>>

\* mutant: a system date message before the message does not restart the run
shouldShowAvatar_ignoresMarker(messages, index) ==
    IF isSystemDateMessage(messages[index]) THEN FALSE
    ELSE IF index = 1 THEN TRUE
    ELSE IF isSystemDateMessage(messages[index - 1])
         THEN index > 2 /\ messages[index].senderId # messages[index - 2].senderId
    ELSE messages[index].senderId # messages[index - 1].senderId

\* only the first message in a sequence from the same sender shows the avatar
shouldShowAvatar(messages, index) ==
    IF isSystemDateMessage(messages[index]) THEN FALSE
    ELSE IF index = 1 THEN TRUE
    ELSE IF isSystemDateMessage(messages[index - 1]) THEN TRUE
    ELSE messages[index].senderId # messages[index - 1].senderId

shouldShowTail(messages, index) == shouldShowAvatar(messages, index)

\* mutant: the sender of the previous message is not compared
isSequentialMessage_anySender(messages, index) ==
    IF isSystemDateMessage(messages[index]) THEN FALSE
    ELSE IF index = 1 THEN FALSE
    ELSE ~isSystemDateMessage(messages[index - 1])

isSequentialMessage(messages, index) ==
    IF isSystemDateMessage(messages[index]) THEN FALSE
    ELSE IF index = 1 THEN FALSE
    ELSE IF isSystemDateMessage(messages[index - 1]) THEN FALSE
    ELSE messages[index].senderId = messages[index - 1].senderId

NoReply == [shown |-> FALSE, senderName |-> "", preview |-> ""]

\* mutant: no fallback label for a reply whose target is gone
ReplyPreview_noFallback(p, message) ==
    IF ~Truthy(message.replyToId) THEN NoReply
    ELSE LET i == getRepliedMessage(p.messages, message.replyToId)
             repliedSender == IF i # 0
                              THEN getParticipantById(p.participants, p.messages[i].senderId)
                              ELSE UndefinedParticipant
         IN  [shown |-> TRUE,
              senderName |-> IF Truthy(repliedSender.name) THEN repliedSender.name ELSE "",
              preview |-> IF i # 0 THEN getMessagePreview(p.messages[i])
                          ELSE IF Truthy(message.replyToPreview) THEN message.replyToPreview
                          ELSE ""]

\* the reply preview of a bubble: the name of the sender of the replied
\* message and a preview of its content
ReplyPreview(p, message) ==
    IF ~Truthy(message.replyToId) THEN NoReply
    ELSE LET i == getRepliedMessage(p.messages, message.replyToId)
             repliedSender == IF i # 0
                              THEN getParticipantById(p.participants, p.messages[i].senderId)
                              ELSE UndefinedParticipant
         IN  [shown |-> TRUE,
              senderName |-> IF Truthy(repliedSender.name)
                             THEN repliedSender.name ELSE "Unknown",
              preview |-> IF i # 0 THEN getMessagePreview(p.messages[i])
                          ELSE IF Truthy(message.replyToPreview) THEN message.replyToPreview
                          ELSE "Message not available"]

\* mutant: name and avatar are drawn without looking whether the sender exists
RenderMessage_noSenderGuard(p, dateMessages, index) ==
    LET message == dateMessages[index]
        sender == getParticipantById(p.participants, message.senderId)
        isMe == sender.id = p.meId
        isSequential == isSequentialMessage(dateMessages, index)
    IN  IF isSystemDateMessage(message)
        THEN [kind |-> "divider", id |-> message.id, text |-> message.text,
              isMe |-> FALSE, showName |-> FALSE, showTail |-> FALSE,
              isSequential |-> FALSE, avatar |-> FALSE, avatarKind |-> "none",
              reply |-> NoReply]
        ELSE [kind |-> "bubble", id |-> message.id, text |-> message.text,
              isMe |-> isMe,
              showName |-> /\ p.mode = "group" /\ ~isMe
                           /\ shouldShowAvatar(dateMessages, index),
              showTail |-> shouldShowTail(dateMessages, index),
              isSequential |-> isSequential,
              avatar |-> ~isMe /\ ~isSequential,
              avatarKind |-> IF isMe \/ isSequential THEN "none"
                             ELSE IF Truthy(sender.avatar) THEN "image" ELSE "initial",
              reply |-> ReplyPreview(p, message)]

\* what dateMessages.map renders for the message at index of a group
RenderMessage(p, dateMessages, index) ==
    LET message == dateMessages[index]
        sender == getParticipantById(p.participants, message.senderId)
        hasSender == sender # UndefinedParticipant
        isMe == sender.id = p.meId
        isSequential == isSequentialMessage(dateMessages, index)
    IN  IF isSystemDateMessage(message)
        THEN [kind |-> "divider", id |-> message.id, text |-> message.text,
              isMe |-> FALSE, showName |-> FALSE, showTail |-> FALSE,
              isSequential |-> FALSE, avatar |-> FALSE, avatarKind |-> "none",
              reply |-> NoReply]
        ELSE [kind |-> "bubble", id |-> message.id, text |-> message.text,
              isMe |-> isMe,
              showName |-> /\ p.mode = "group" /\ ~isMe
                           /\ shouldShowAvatar(dateMessages, index) /\ hasSender,
              showTail |-> shouldShowTail(dateMessages, index),
              isSequential |-> isSequential,
              avatar |-> ~isMe /\ ~isSequential /\ hasSender,
              avatarKind |-> IF isMe \/ isSequential \/ ~hasSender THEN "none"
                             ELSE IF Truthy(sender.avatar) THEN "image" ELSE "initial",
              reply |-> ReplyPreview(p, message)]

\* one render of the chat container for the given props
ChatPreview(p) ==
    LET processed == processedMessages(p.messages)
        groups == messagesByDate(processed, p.showDateDividers)
    IN  [mounted |-> TRUE,
         processed |-> processed,
         empty |-> Len(processed) = 0,
         groups |-> IF Len(processed) = 0 THEN <<>>
                    ELSE [g \in 1 .. Len(groups) |->
                            [dateStr |-> groups[g].dateStr,
                             header |-> p.showDateDividers /\ groups[g].dateStr # "all",
                             items |-> [i \in 1 .. Len(groups[g].messages) |->
                                          RenderMessage(p, groups[g].messages, i)]]]]

\* ----------------------------------------------------------------- actions
\* One action per user event; the event is dispatched to the handler of the
\* component that owns the conversation.

\* the user submits the "add participant" form
AddParticipantSubmit(maxParticipants) ==
    \E name \in NameInputs, avatarUrl \in AvatarInputs :
        LET r == ParticipantManager_handleSubmit(name, avatarUrl)
            id == uuidv4(uuidCount + 1)
        IN  IF ~r.submitted
            THEN /\ lastOp' = Op("onAddParticipant.rejected", "")
                 /\ UNCHANGED <<store, asyncVars, prefVars, viewVars, state, selectedParticipant, customDateText, uuidCount>>
            ELSE /\ Len(state.participants) < maxParticipants
                 /\ uuidCount < MaxUuid
                 /\ uuidCount' = uuidCount + 1
                 /\ IF store = "App"
                    THEN LET h == handleAddParticipant(state, selectedParticipant,
                                                       r.participant, id)
                         IN  /\ state' = h.state
                             /\ selectedParticipant' = h.selectedParticipant
                             /\ lastOp' = Op("handleAddParticipant", "")
                    ELSE /\ state' = addParticipant(state, r.participant, id)
                         /\ lastOp' = Op("addParticipant", "")
                         /\ UNCHANGED selectedParticipant
                 /\ UNCHANGED <<store, asyncVars, prefVars, viewVars, customDateText>>

\* the user clicks the trash button of a listed participant
RemoveParticipantClick ==
    \E id \in ParticipantIds(state) :
        /\ IF store = "App"
           THEN LET h == handleRemoveParticipant(state, selectedParticipant, id)
                IN  /\ state' = h.state
                    /\ selectedParticipant' = h.selectedParticipant
                    /\ lastOp' = [Op("handleRemoveParticipant", id) EXCEPT !.me = state.meId]
           ELSE /\ state' = removeParticipant(state, id)
                /\ lastOp' = [Op("removeParticipant", id) EXCEPT !.me = state.meId]
                /\ UNCHANGED selectedParticipant
        /\ UNCHANGED <<store, asyncVars, prefVars, viewVars, customDateText, uuidCount>>

\* the avatar image of a listed participant fails to load
AvatarLoadError ==
    \E i \in 1 .. Len(state.participants) :
        LET participant == state.participants[i]
            cleared == [participant EXCEPT !.avatar = Null]
        IN  /\ Truthy(participant.avatar)
            /\ IF store = "App"
               THEN LET h == handleUpdateParticipant(state, selectedParticipant, cleared)
                    IN  /\ state' = h.state
                        /\ selectedParticipant' = h.selectedParticipant
                        /\ lastOp' = Op("handleUpdateParticipant", "")
               ELSE /\ state' = updateParticipant(state, cleared)
                    /\ lastOp' = Op("updateParticipant", "")
                    /\ UNCHANGED selectedParticipant
            /\ UNCHANGED <<store, asyncVars, prefVars, viewVars, customDateText, uuidCount>>

\* the browser finds that the avatar image of a listed participant cannot
\* be loaded and raises its error event; the event waits for its turn
AvatarErrorRaised ==
    \E i \in 1 .. Len(state.participants) :
        LET participant == state.participants[i]
        IN  /\ store = "App"
            /\ Truthy(participant.avatar)
            /\ \A report \in avatarErrors : report.id # participant.id
            /\ avatarErrors' = avatarErrors \cup {participant}
            /\ lastOp' = Op("img.error", participant.id)
            /\ UNCHANGED <<store, convVars, prefVars, viewVars, fileInput>>

\* the participant in the closure of the onError handler that runs for a
\* report: the one of the render the image was in when the event was raised,
\* or the one of the last render when the image is still on screen
ClosureParticipants(report) ==
    {report} \cup {state.participants[i] : i \in
                      {k \in 1 .. Len(state.participants) :
                          /\ state.participants[k].id = report.id
                          /\ Truthy(state.participants[k].avatar)}}

\* a waiting error event is delivered: onError calls
\* onUpdateParticipant({...participant, avatar: null})
AvatarErrorHandled ==
    \E report \in avatarErrors :
        \E participant \in ClosureParticipants(report) :
            LET h == handleUpdateParticipant(state, selectedParticipant,
                                             [participant EXCEPT !.avatar = Null])
            IN  /\ store = "App"
                /\ state' = h.state
                /\ selectedParticipant' = h.selectedParticipant
                /\ avatarErrors' = avatarErrors \ {report}
                /\ lastOp' = Op("img.onError", report.id)
                /\ UNCHANGED <<store, prefVars, viewVars, fileInput, customDateText, uuidCount>>

\* the participant handed to onUpdateParticipant for a given id
UpdatedParticipant(id) == [id |-> id, name |-> "Eve", avatar |-> Null]

\* onUpdateParticipant is called with a participant whose id is any id
\* handed out so far, listed or not, or an id that never was
UpdateParticipantCall ==
    \E n \in 0 .. uuidCount :
        LET participant == UpdatedParticipant(uuidv4(n))
        IN  /\ IF store = "App"
               THEN LET h == handleUpdateParticipant(state, selectedParticipant, participant)
                    IN  /\ state' = h.state
                        /\ selectedParticipant' = h.selectedParticipant
                        /\ lastOp' = Op("handleUpdateParticipant", participant.id)
               ELSE /\ state' = updateParticipant(state, participant)
                    /\ lastOp' = Op("updateParticipant", participant.id)
                    /\ UNCHANGED selectedParticipant
            /\ UNCHANGED <<store, asyncVars, prefVars, viewVars, customDateText, uuidCount>>

\* the user clicks "Set as Me" (shown for every listed participant but "me")
SetAsMeClick ==
    \E id \in ParticipantIds(state) :
        /\ state.meId # id
        /\ IF store = "App"
           THEN /\ state' = handleSetAsMe(state, id)
                /\ lastOp' = Op("handleSetAsMe", id)
           ELSE /\ state' = setAsMe(state, id)
                /\ lastOp' = Op("setAsMe", id)
        /\ UNCHANGED <<store, asyncVars, prefVars, viewVars, selectedParticipant, customDateText, uuidCount>>

\* the user picks a sender in the select of the chat input
handleParticipantChange ==
    \E i \in 1 .. Len(state.participants) :
        /\ store = "App"
        /\ selectedParticipant' = state.participants[i]
        /\ lastOp' = Op("handleParticipantChange", "")
        /\ UNCHANGED <<store, asyncVars, prefVars, viewVars, state, customDateText, uuidCount>>

\* the user clicks "Send Message"; a disabled button ignores the click
SendMessageClick(forms, maxMessages) ==
    \E form \in forms, now \in Timestamps,
       sel \in (IF store = "App" THEN {selectedParticipant}
                ELSE {NullParticipant} \cup
                     {state.participants[i] : i \in 1 .. Len(state.participants)}) :
        LET r == ChatInput_handleSubmit(form, sel, now)
            id == uuidv4(uuidCount + 1)
        IN  IF SendDisabled(form, sel) \/ ~r.sent
            THEN /\ lastOp' = Op("onMessageSend.rejected", "")
                 /\ UNCHANGED <<store, asyncVars, prefVars, viewVars, state, selectedParticipant, customDateText, uuidCount>>
            ELSE /\ Len(state.messages) < maxMessages
                 /\ uuidCount < MaxUuid
                 /\ uuidCount' = uuidCount + 1
                 /\ IF store = "App"
                    THEN /\ state' = handleMessageSend(state, r.message, id)
                         /\ lastOp' = Op("handleMessageSend", "")
                    ELSE /\ state' = sendMessage(state, r.message, id)
                         /\ lastOp' = Op("sendMessage", "")
                 /\ UNCHANGED <<store, asyncVars, prefVars, viewVars, selectedParticipant, customDateText>>

\* the user types in the custom date field
setCustomDateText ==
    \E text \in LabelInputs :
        /\ store = "App"
        /\ customDateText' = text
        /\ lastOp' = Op("setCustomDateText", "")
        /\ UNCHANGED <<store, asyncVars, prefVars, viewVars, state, selectedParticipant, uuidCount>>

\* the date settings call onAddDateMessage
AddDateMessage(maxMessages) ==
    \E now \in Timestamps :
        LET id == uuidv4(uuidCount + 1)
            h == handleAddDateMessage(state, customDateText, id, now)
        IN  /\ store = "App"
            /\ h.state # state =>
                   Len(state.messages) < maxMessages /\ uuidCount < MaxUuid
            /\ state' = h.state
            /\ customDateText' = h.customDateText
            /\ uuidCount' = IF h.state # state THEN uuidCount + 1 ELSE uuidCount
            /\ lastOp' = Op("handleAddDateMessage", customDateText)
            /\ UNCHANGED <<store, asyncVars, prefVars, viewVars, selectedParticipant>>

\* the user picks a chat mode; "private" is disabled unless two participants
ChatModeChange ==
    \E mode \in {"group", "private"} :
        /\ mode = "private" => Len(state.participants) = 2
        /\ IF store = "App"
           THEN /\ state' = handleChatModeChange(state, mode)
                /\ lastOp' = Op("handleChatModeChange", "")
           ELSE /\ state' = updateChatSettings(state, [mode |-> mode])
                /\ lastOp' = Op("updateChatSettings", "")
        /\ UNCHANGED <<store, asyncVars, prefVars, viewVars, selectedParticipant, customDateText, uuidCount>>

\* ------------------------------------------ the file input of ChatInput
\* the files the user may pick: an image and a file that is not an image
Files == {"f.png", "notes.txt"}
IsImageFile(file) == file = "f.png"

\* FileReader.readAsDataURL(file), once the read has finished
readAsDataURL(file) == "data:" \o file

\* ChatInput.handleFileSelect: the file is selected at once, its data URL
\* arrives later in reader.onload
handleFileSelect ==
    \E file \in Files :
        /\ IF ~IsImageFile(file)
           THEN UNCHANGED fileInput
           ELSE fileInput' = [fileInput EXCEPT !.selectedFile = file,
                                               !.reading = @ \cup {file}]
        /\ lastOp' = Op("handleFileSelect", file)
        /\ UNCHANGED <<store, convVars, prefVars, viewVars, avatarErrors>>

\* reader.onload of a FileReader at work: setImageData(event.target.result)
FileReaderOnload ==
    \E file \in fileInput.reading :
        /\ fileInput' = [fileInput EXCEPT !.imageData = readAsDataURL(file),
                                           !.reading = @ \ {file}]
        /\ lastOp' = Op("reader.onload", file)
        /\ UNCHANGED <<store, convVars, prefVars, viewVars, avatarErrors>>

\* the user clicks "Send Message" with the file input as it is now; a sent
\* draft resets selectedFile and imageData, a FileReader at work goes on
ChatInputSubmit(maxMessages) ==
    \E typed \in ChatInputForms, now \in Timestamps,
       sel \in (IF store = "App" THEN {selectedParticipant}
                ELSE {NullParticipant} \cup
                     {state.participants[i] : i \in 1 .. Len(state.participants)}) :
        LET form == [typed EXCEPT !.selectedFile = fileInput.selectedFile,
                                  !.imageData = fileInput.imageData]
            r == ChatInput_handleSubmit(form, sel, now)
            id == uuidv4(uuidCount + 1)
        IN  /\ typed.selectedFile = Null
            /\ IF SendDisabled(form, sel) \/ ~r.sent
               THEN /\ lastOp' = Op("onMessageSend.rejected", "")
                    /\ UNCHANGED <<store, asyncVars, prefVars, viewVars, state, selectedParticipant, customDateText, uuidCount>>
               ELSE /\ Len(state.messages) < maxMessages
                    /\ uuidCount < MaxUuid
                    /\ uuidCount' = uuidCount + 1
                    /\ IF store = "App"
                       THEN /\ state' = handleMessageSend(state, r.message, id)
                            /\ lastOp' = Op("handleMessageSend", "")
                       ELSE /\ state' = sendMessage(state, r.message, id)
                            /\ lastOp' = Op("sendMessage", "")
                    /\ fileInput' = [fileInput EXCEPT !.selectedFile = Null,
                                                       !.imageData = Null]
                    /\ UNCHANGED <<store, prefVars, viewVars, avatarErrors, selectedParticipant, customDateText>>

\* ------------------------------------------------- the preview on its own
\* ChatPreview is a function of its props: the messages it is handed are
\* drawn from the Message type, whoever produced them.

BlankMessage ==
    [id |-> Undefined, senderId |-> Undefined, text |-> "", timestamp |-> 0,
     type |-> "text", audioDuration |-> Undefined, imageUrl |-> Undefined,
     imageCaption |-> Undefined, replyToId |-> Undefined,
     replyToPreview |-> Undefined, replyToType |-> Undefined]

\* text messages of two senders on three calendar days, and a date marker
PlainMessages ==
    {[BlankMessage EXCEPT !.senderId = "p1", !.text = "hi", !.timestamp = t] :
        t \in {0, 2}}
    \cup
    {[BlankMessage EXCEPT !.senderId = "p2", !.text = "hi", !.timestamp = t] :
        t \in {0, 4}}
    \cup
    {[BlankMessage EXCEPT !.senderId = SystemDate, !.text = "Today",
                          !.type = Undefined]}

\* replies to the first message or to a message that is not in the list
ReplyMessages ==
    {[BlankMessage EXCEPT !.senderId = "p2", !.text = "re", !.replyToId = "id-9",
                          !.replyToPreview = c, !.replyToType = "text"] :
        c \in {Undefined, "", "old"}}
    \cup
    {[BlankMessage EXCEPT !.senderId = "p2", !.text = "re", !.replyToId = "id-1",
                          !.replyToPreview = "old", !.replyToType = "text"]}

PreviewParticipants ==
    <<[id |-> "p1", name |-> "Ann", avatar |-> Null],
      [id |-> "p2", name |-> "Bob", avatar |-> "b.png"]>>

\* the chat settings, "me" and the participants the preview is mounted with
PreviewConfigs ==
    {[mode |-> "group", meId |-> Null, participants |-> PreviewParticipants],
     [mode |-> "private", meId |-> "p1", participants |-> PreviewParticipants],
     [mode |-> "group", meId |-> "p1", participants |-> SubSeq(PreviewParticipants, 1, 1)]}

PreviewInit ==
    /\ store = "App"
    /\ SessionStart(EmptyStorage)
    /\ uuidCount = 0
    /\ \E c \in PreviewConfigs :
           props = [NoProps EXCEPT !.mode = c.mode, !.meId = c.meId,
                                   !.participants = c.participants]
    /\ rendered = ChatPreview(props)
    /\ lastOp = Op("init", "")

\* the parent appends a message and ChatPreview renders again
Rerender(message) ==
    /\ Len(props.messages) < MaxPreviewMessages
    /\ props' = [props EXCEPT !.messages =
                    Append(@, [message EXCEPT !.id = uuidv4(Len(props.messages) + 1)])]
    /\ rendered' = ChatPreview(props')
    /\ UNCHANGED <<store, asyncVars, convVars, prefVars, lastOp>>

AppendPlain == \E message \in PlainMessages : Rerender(message)

AppendReply ==
    /\ Cardinality({i \in 1 .. Len(props.messages) : Truthy(props.messages[i].replyToId)})
           < MaxReplies
    /\ \E message \in ReplyMessages : Rerender(message)

\* the parent flips showDateDividers and ChatPreview renders again
ToggleDateDividers ==
    /\ props' = [props EXCEPT !.showDateDividers = ~@]
    /\ rendered' = ChatPreview(props')
    /\ UNCHANGED <<store, asyncVars, convVars, prefVars, lastOp>>

\* texts of 50 and of 51 characters
Text50 == "01234567890123456789012345678901234567890123456789"
Text51 == Text50 \o "x"

\* the messages a reply may point to: texts around the preview limit, a
\* voice message, images with and without caption
TargetMessages ==
    {[BlankMessage EXCEPT !.senderId = "p1", !.text = t] :
        t \in {"hi", Text50, Text51, Text51 \o "yz"}}
    \cup
    {[BlankMessage EXCEPT !.senderId = "p1", !.text = "Audio message",
                          !.type = "audio", !.audioDuration = "0:05"]}
    \cup
    {[BlankMessage EXCEPT !.senderId = "p1", !.text = "Image", !.type = "image",
                          !.imageUrl = "p.png", !.imageCaption = c] :
        c \in {Undefined, "", "cap"}}

\* the first message of the list, rendered
AppendTarget ==
    /\ props.messages = <<>>
    /\ \E message \in TargetMessages : Rerender(message)

ReplyNext == AppendTarget \/ AppendReply \/ ToggleDateDividers

\* --------------------- unnamed/part_001: the chat input with a reply target
\* the replyToMessage prop when the parent passes none
UndefinedMessage == BlankMessage

\* mutant: the text of the target is cached whole
ChatInput_getMessagePreview_whole(message) ==
    IF message.type = "audio" THEN "Voice message"
    ELSE IF message.type = "image"
         THEN (IF Truthy(message.imageCaption) THEN message.imageCaption ELSE "Photo")
    ELSE message.text

\* getMessagePreview of the chat input: a preview text for a message
ChatInput_getMessagePreview(message) ==
    IF message.type = "audio" THEN "Voice message"
    ELSE IF message.type = "image"
         THEN (IF Truthy(message.imageCaption) THEN message.imageCaption ELSE "Photo")
    ELSE IF Len(message.text) > 50
         THEN SubSeq(message.text, 1, 47) \o "..."
         ELSE message.text

\* handleSubmit of the chat input that takes a reply target: the draft handed
\* to onMessageSend, or a rejection
ReplyInput_handleSubmit(form, sel, now, replyToMessage) ==
    IF sel = NullParticipant THEN [sent |-> FALSE]
    ELSE IF form.messageType = "audio" /\ ~Truthy(form.audioDuration) THEN [sent |-> FALSE]
    ELSE IF form.messageType = "image" /\ form.imageData = Null /\ ~Truthy(form.imageUrl)
         THEN [sent |-> FALSE]
    ELSE LET replying == replyToMessage # UndefinedMessage
         IN  [sent |-> TRUE,
              message |->
                [id |-> Undefined,
                 senderId |-> sel.id,
                 text |-> IF form.messageType = "text" THEN form.messageText
                          ELSE IF form.messageType = "audio" THEN "Audio message"
                          ELSE IF Truthy(form.imageCaption) THEN form.imageCaption ELSE "Image",
                 timestamp |-> now,
                 type |-> form.messageType,
                 audioDuration |-> IF form.messageType = "audio"
                                   THEN form.audioDuration ELSE Undefined,
                 imageUrl |-> IF form.messageType = "image"
                              THEN (IF Truthy(form.imageData)
                                    THEN form.imageData ELSE form.imageUrl)
                              ELSE Undefined,
                 imageCaption |-> IF form.messageType = "image" /\ Truthy(form.imageCaption)
                                  THEN form.imageCaption ELSE Undefined,
                 replyToId |-> IF replying THEN replyToMessage.id ELSE Undefined,
                 replyToPreview |-> IF replying
                                    THEN ChatInput_getMessagePreview(replyToMessage)
                                    ELSE Undefined,
                 replyToType |-> IF replying THEN replyToMessage.type ELSE Undefined]]

\* the drafts sent in reply: a text
ReplyForms == {f \in TextForms : f.messageText # ""}

\* the user sends a draft while the parent passes a message of the list, or
\* nothing, as replyToMessage; the parent appends the message and the
\* preview renders again
ReplySubmit ==
    \E form \in ReplyForms, now \in Timestamps,
       s \in 1 .. Len(props.participants), t \in 0 .. Len(props.messages) :
        LET replyToMessage == IF t = 0 THEN UndefinedMessage ELSE props.messages[t]
            r == ReplyInput_handleSubmit(form, props.participants[s], now, replyToMessage)
        IN  /\ Len(props.messages) < MaxReplyMessages
            /\ r.sent
            /\ Rerender(r.message)

ReplyInputNext == AppendTarget \/ ReplySubmit \/ ToggleDateDividers

ReplyInputSpec == PreviewInit /\ [][ReplyInputNext]_vars

ReplySpec == PreviewInit /\ [][ReplyNext]_vars

PreviewNext == AppendPlain \/ AppendReply \/ ToggleDateDividers

PreviewSpec == PreviewInit /\ [][PreviewNext]_vars

\* ------------------------------------------- preferences and page reload
BackgroundInputs == {"", "bg.png"}

\* setPreviewOnRight(prev => !prev), then the effect that saves the slot
togglePreviewPosition ==
    /\ previewOnRight' = ~previewOnRight
    /\ localStorage' = [localStorage EXCEPT !.previewOnRight = JSONstringify(~previewOnRight)]
    /\ lastOp' = Op("togglePreviewPosition", "")
    /\ UNCHANGED <<store, asyncVars, convVars, viewVars, darkMode, showDateDividers, chatBackground>>

toggleTheme ==
    LET isDark == darkMode
    IN  /\ darkMode' = ~isDark
        /\ localStorage' = [localStorage EXCEPT !.darkMode = JSONstringify(~isDark)]
        /\ lastOp' = Op("toggleTheme", "")
        /\ UNCHANGED <<store, asyncVars, convVars, viewVars, previewOnRight, showDateDividers, chatBackground>>

\* the date settings call onShowDateDividersChange
setShowDateDividers ==
    \E value \in BOOLEAN :
        /\ showDateDividers' = value
        /\ lastOp' = Op("setShowDateDividers", "")
        /\ UNCHANGED <<store, asyncVars, convVars, viewVars, previewOnRight, darkMode, chatBackground, localStorage>>

\* the background settings call onBackgroundImageChange
setChatBackground ==
    \E url \in BackgroundInputs :
        /\ chatBackground' = url
        /\ lastOp' = Op("setChatBackground", "")
        /\ UNCHANGED <<store, asyncVars, convVars, viewVars, previewOnRight, darkMode, showDateDividers, localStorage>>

\* the page is loaded again: App mounts with what localStorage holds
Reload ==
    /\ state' = Mounted(localStorage).state
    /\ selectedParticipant' = Mounted(localStorage).selectedParticipant
    /\ customDateText' = Mounted(localStorage).customDateText
    /\ showDateDividers' = Mounted(localStorage).showDateDividers
    /\ chatBackground' = Mounted(localStorage).chatBackground
    /\ previewOnRight' = Mounted(localStorage).previewOnRight
    /\ darkMode' = Mounted(localStorage).darkMode
    /\ localStorage' = Mounted(localStorage).localStorage
    /\ lastOp' = Op(IF Mounted(localStorage).threw THEN "reload.threw" ELSE "reload", "")
    /\ fileInput' = NoFile
    /\ avatarErrors' = {}
    /\ UNCHANGED <<store, uuidCount, viewVars>>

\* what another tab, an older version or the user may leave in a slot
SlotInputs == {Null, "true", "false", "", "oops"}

\* a slot of localStorage is written from outside the session
EditStorage ==
    \E text \in SlotInputs :
        /\ \/ localStorage' = [localStorage EXCEPT !.previewOnRight = text]
           \/ localStorage' = [localStorage EXCEPT !.darkMode = text]
        /\ UNCHANGED <<store, asyncVars, convVars, viewVars, previewOnRight, darkMode,
                       showDateDividers, chatBackground, lastOp>>

\* App is on screen: its last mount did not throw
AppMounted == lastOp.name # "reload.threw"

\* the handlers of the preference buttons exist only while App is mounted
PreferenceClick == AppMounted /\ (togglePreviewPosition \/ toggleTheme)

PrefsInit == Init /\ store = "App"

PrefsNext ==
    \/ AddParticipantSubmit(MaxParticipants)
    \/ SetAsMeClick
    \/ togglePreviewPosition
    \/ toggleTheme
    \/ setShowDateDividers
    \/ setChatBackground
    \/ Reload

PrefsSpec == PrefsInit /\ [][PrefsNext]_vars

LoadNext == PreferenceClick \/ EditStorage \/ Reload

LoadSpec == PrefsInit /\ [][LoadNext]_vars

\* the participant list and the chat input of App, with avatar images
\* whose load failures are reported while other events are handled
AvatarNext ==
    \/ AddParticipantSubmit(MaxParticipants)
    \/ RemoveParticipantClick
    \/ SetAsMeClick
    \/ SendMessageClick(TextForms, MaxMessages)
    \/ AvatarErrorRaised
    \/ AvatarErrorHandled

AvatarSpec == PrefsInit /\ [][AvatarNext]_vars

\* the events of App that add, remove, update and select participants, and
\* the sending of a message by the selected sender
SenderNext ==
    \/ AddParticipantSubmit(MaxParticipants)
    \/ RemoveParticipantClick
    \/ UpdateParticipantCall
    \/ AvatarErrorRaised
    \/ AvatarErrorHandled
    \/ handleParticipantChange
    \/ SendMessageClick(TextForms, MaxMessages)

SenderSpec == PrefsInit /\ [][SenderNext]_vars

\* the chat input with every kind of draft and a file read that takes time
InputNext ==
    \/ AddParticipantSubmit(MaxInputParticipants)
    \/ handleParticipantChange
    \/ handleFileSelect
    \/ FileReaderOnload
    \/ ChatInputSubmit(MaxInputMessages)

InputSpec == PrefsInit /\ [][InputNext]_vars

\* ------------------------------------------------- import of a document
\* The import of an external document is described by the specification
\* only (external interfaces: import/export document shape); no source file
\* of it is at hand.  A field of a document is absent or present with a value.
Absent == [present |-> FALSE]
Present(v) == [present |-> TRUE, value |-> v]

ImportDocuments ==
    [participants : {Absent, Present(<<>>), Present(PreviewParticipants)},
     messages : {Absent, Present(<<>>)},
     chatSettings : {Absent, Present([mode |-> "group", title |-> "Imported", avatar |-> Null])},
     meId : {Absent, Present(Null)},
     phoneStatus : {Absent, Present([batteryLevel |-> 50, customTime |-> Null])},
     showDateDividers : {Absent, Present(FALSE)},
     chatBackground : {Absent, Present("doc.png")}]

Field(doc, name, current) == IF doc[name].present THEN doc[name].value ELSE current

\* mutant: a field the document does not have is reset to its default
importDocument_resets(st, dividers, background, doc) ==
    [state |-> [participants |-> Field(doc, "participants", <<>>),
                messages |-> Field(doc, "messages", <<>>),
                chatSettings |-> Field(doc, "chatSettings", InitialState.chatSettings),
                meId |-> Field(doc, "meId", Null),
                phoneStatus |-> Field(doc, "phoneStatus", InitialState.phoneStatus)],
     showDateDividers |-> Field(doc, "showDateDividers", TRUE),
     chatBackground |-> Field(doc, "chatBackground", "")]

\* every field of the document replaces the current value, every other
\* value stays
importDocument(st, dividers, background, doc) ==
    [state |-> [participants |-> Field(doc, "participants", st.participants),
                messages |-> Field(doc, "messages", st.messages),
                chatSettings |-> Field(doc, "chatSettings", st.chatSettings),
                meId |-> Field(doc, "meId", st.meId),
                phoneStatus |-> Field(doc, "phoneStatus", st.phoneStatus)],
     showDateDividers |-> Field(doc, "showDateDividers", dividers),
     chatBackground |-> Field(doc, "chatBackground", background)]

\* the user imports a document
ImportDocument ==
    \E doc \in ImportDocuments :
        LET r == importDocument(state, showDateDividers, chatBackground, doc)
        IN  /\ state' = r.state
            /\ showDateDividers' = r.showDateDividers
            /\ chatBackground' = r.chatBackground
            /\ lastOp' = Op("importDocument", doc)
            /\ UNCHANGED <<store, asyncVars, viewVars, selectedParticipant, customDateText,
                           uuidCount, previewOnRight, darkMode, localStorage>>

ImportNext == ImportDocument \/ setShowDateDividers \/ setChatBackground

ImportSpec == PrefsInit /\ [][ImportNext]_vars

Next ==
    \/ AddParticipantSubmit(MaxParticipants)
    \/ RemoveParticipantClick
    \/ AvatarLoadError
    \/ SetAsMeClick
    \/ handleParticipantChange
    \/ SendMessageClick(TextForms, MaxMessages)
    \/ setCustomDateText
    \/ AddDateMessage(MaxMessages)
    \/ ChatModeChange

Spec == Init /\ [][Next]_vars

\* the commands on the participant list, called with any argument
ParticipantNext ==
    \/ AddParticipantSubmit(MaxParticipants)
    \/ RemoveParticipantClick
    \/ UpdateParticipantCall
    \/ SetAsMeClick

ParticipantSpec == Init /\ [][ParticipantNext]_vars

\* ------------------------------------------------------------------ claims
RemoveOps == {"handleRemoveParticipant", "removeParticipant"}
SetAsMeOps == {"handleSetAsMe", "setAsMe"}
SendOps == {"handleMessageSend", "sendMessage"}
AddOps == {"handleAddParticipant", "addParticipant"}
UpdateOps == {"handleUpdateParticipant", "updateParticipant"}

IsPrefix(s, t) == Len(s) <= Len(t) /\ SubSeq(t, 1, Len(s)) = s

\* C1: in every reachable state meId is null or the id of a participant
\* that is currently in participants.
C1_MeIdReferencesParticipant ==
    state.meId = Null \/ state.meId \in ParticipantIds(state)

\* a participant other than "me" has just been removed and "me" is still there
C1_Witness ==
    /\ lastOp.name \in RemoveOps
    /\ state.meId # Null
    /\ state.meId \in ParticipantIds(state)
    /\ lastOp.arg # state.meId

\* C2: the state right after removeParticipant(id) no longer holds the
\* participant and has meId # id; when id was meId, meId is null in that
\* very state.
C2_RemovalClearsMe ==
    lastOp.name \in RemoveOps =>
        /\ lastOp.arg \notin ParticipantIds(state)
        /\ state.meId # lastOp.arg
        /\ lastOp.me = lastOp.arg => state.meId = Null

\* "me" has just been removed
C2_Witness ==
    /\ lastOp.name \in RemoveOps
    /\ lastOp.me = lastOp.arg
    /\ state.meId = Null
    /\ lastOp.arg \notin ParticipantIds(state)

\* C3: setAsMe(id) sets meId to id; with exactly two participants the mode is
\* "private" afterwards whatever it was, with any other number of
\* participants the mode is unchanged.
C3_SetAsMeMode ==
    [][lastOp'.name \in SetAsMeOps =>
          /\ state'.meId = lastOp'.arg
          /\ state'.participants = state.participants
          /\ IF Len(state.participants) = 2
             THEN state'.chatSettings.mode = "private"
             ELSE state'.chatSettings.mode = state.chatSettings.mode]_vars

\* setAsMe has just run with two participants
C3_Witness ==
    /\ lastOp.name \in SetAsMeOps
    /\ Len(state.participants) = 2
    /\ state.meId = lastOp.arg
    /\ state.chatSettings.mode = "private"

\* the rendered items, as pairs <<group, position>>
Items == {gi \in (1 .. MaxPreviewMessages + 1) \X (1 .. MaxPreviewMessages + 1) :
             /\ gi[1] <= Len(rendered.groups)
             /\ gi[2] <= Len(rendered.groups[gi[1]].items)}

Item(gi) == rendered.groups[gi[1]].items[gi[2]]

Bubbles == {gi \in Items : Item(gi).kind = "bubble"}

\* the message of the list a rendered item shows
Shown(gi) == props.messages[FindIndexById(props.messages, Item(gi).id)]

\* C4: collapsing consecutive system-date markers is idempotent: the collapse
\* of the collapsed list the render uses is that same list.
C4_CollapseIdempotent ==
    rendered.mounted => processedMessages(rendered.processed) = rendered.processed

\* the collapse has dropped two markers of a row of three
C4_Witness ==
    /\ rendered.mounted
    /\ Len(props.messages) >= 3
    /\ Len(rendered.processed) = Len(props.messages) - 2

\* messages[k] starts a run of the list: it is the first message, or the
\* message before it is a marker or has another sender
RunStart(messages, k) ==
    \/ k = 1
    \/ isSystemDateMessage(messages[k - 1])
    \/ messages[k - 1].senderId # messages[k].senderId

\* the list is rendered in date buckets
Bucketed(p) ==
    /\ p.showDateDividers
    /\ \A i \in 1 .. Len(p.messages) : p.messages[i].senderId # SystemDate

\* the message rendered right above messages[k] in its render group, 0 if none
PrevInGroup(p, k) ==
    IF Bucketed(p)
    THEN LET same == {j \in 1 .. k - 1 :
                         p.messages[j].timestamp \div 2 = p.messages[k].timestamp \div 2}
         IN  IF same = {} THEN 0 ELSE CHOOSE j \in same : \A i \in same : i <= j
    ELSE k - 1

GroupRunStart(p, k) ==
    LET j == PrevInGroup(p, k)
    IN  \/ j = 0
        \/ isSystemDateMessage(p.messages[j])
        \/ p.messages[j].senderId # p.messages[k].senderId

\* C5 as stated: in both rendering modes the first message of every run of
\* the message list, and no other, shows avatar and tail; the others are
\* sequential.
C5_RunsOfMessageList ==
    \A gi \in Bubbles :
        LET k == FindIndexById(props.messages, Item(gi).id)
        IN  /\ Item(gi).showTail <=> RunStart(props.messages, k)
            /\ Item(gi).isSequential <=> ~RunStart(props.messages, k)
            /\ (Item(gi).avatar \/ Item(gi).showName) => RunStart(props.messages, k)

\* C5 amended: every non-marker message is rendered once, and runs are taken
\* within the render group: the whole list in flat mode, the messages of one
\* calendar date in bucketed mode.  The first message of such a run, and no
\* other, shows the tail; the others are sequential and show neither name
\* nor avatar.
C5_RunsOfRenderGroup ==
    /\ ~rendered.empty =>
           {Item(gi).id : gi \in Bubbles} =
               {props.messages[i].id : i \in {j \in 1 .. Len(props.messages) :
                                                 ~isSystemDateMessage(props.messages[j])}}
    /\ \A gi \in Bubbles :
           LET k == FindIndexById(props.messages, Item(gi).id)
           IN  /\ Item(gi).showTail <=> GroupRunStart(props, k)
               /\ Item(gi).isSequential <=> ~GroupRunStart(props, k)
               /\ (Item(gi).avatar \/ Item(gi).showName) => GroupRunStart(props, k)

\* three messages of one sender followed by one of another, in one group:
\* the first and the fourth show the tail, the second and third do not
C5_Witness ==
    /\ Len(props.messages) = 4
    /\ Len(rendered.groups) = 1
    /\ Len(rendered.groups[1].items) = 4
    /\ \A i \in 1 .. 3 : props.messages[i].senderId = "p1"
    /\ props.messages[4].senderId = "p2"
    /\ [i \in 1 .. 4 |-> rendered.groups[1].items[i].showTail] = <<TRUE, FALSE, FALSE, TRUE>>
    /\ [i \in 1 .. 4 |-> rendered.groups[1].items[i].isSequential] = <<FALSE, TRUE, TRUE, FALSE>>

\* C6: a reply whose replyToId matches no message of the list is rendered
\* with the sender label "Unknown" and the cached replyToPreview, and its
\* preview is never empty.
C6_UnresolvedReplyFallback ==
    \A gi \in Bubbles :
        (/\ Truthy(Shown(gi).replyToId)
         /\ \A i \in 1 .. Len(props.messages) : props.messages[i].id # Shown(gi).replyToId)
        => /\ Item(gi).reply.shown
           /\ Item(gi).reply.senderName = "Unknown"
           /\ Item(gi).reply.preview # ""
           /\ Truthy(Shown(gi).replyToPreview) =>
                  Item(gi).reply.preview = Shown(gi).replyToPreview

\* a rendered reply to a message that is not in the list, with a cached preview
C6_Witness ==
    \E gi \in Bubbles :
        /\ Shown(gi).replyToId = "id-9"
        /\ Shown(gi).replyToPreview = "old"
        /\ Item(gi).reply = [shown |-> TRUE, senderName |-> "Unknown", preview |-> "old"]

Keys(r) == [g \in 1 .. Len(r.groups) |-> r.groups[g].dateStr]

\* the position in the list of the first message of a calendar date
FirstIndexOfDate(messages, dateStr) ==
    CHOOSE i \in 1 .. Len(messages) :
        /\ toDateString(messages[i].timestamp) = dateStr
        /\ \A j \in 1 .. i - 1 : toDateString(messages[j].timestamp) # dateStr

\* one bucket per calendar date of the list, in the order of first occurrence
FirstSeenOrder(p, r) ==
    /\ {r.groups[g].dateStr : g \in 1 .. Len(r.groups)} =
           {toDateString(p.messages[i].timestamp) : i \in 1 .. Len(p.messages)}
    /\ \A g, h \in 1 .. Len(r.groups) :
           g < h => FirstIndexOfDate(p.messages, r.groups[g].dateStr)
                        < FirstIndexOfDate(p.messages, r.groups[h].dateStr)

\* C8: with showDateDividers true and no marker in the list, the date buckets
\* appear in the order in which their date is first encountered, and
\* appending a message keeps the existing buckets in their order, a new date
\* coming after them however early it is.
C8_FirstEncounteredOrder ==
    [][/\ Bucketed(props') => FirstSeenOrder(props', rendered')
       /\ (/\ Bucketed(props) /\ Bucketed(props')
           /\ Len(props'.messages) = Len(props.messages) + 1)
          => IsPrefix(Keys(rendered), Keys(rendered'))]_vars

\* three buckets, the last one appended for the earliest date
C8_Witness ==
    /\ Bucketed(props)
    /\ Len(props.messages) = 3
    /\ props.messages[3].timestamp = 0
    /\ Keys(rendered) = <<toDateString(4), toDateString(2), toDateString(0)>>

\* C7: insertDateMarker with an empty or whitespace-only label changes
\* neither the message list nor any other part of the conversation state.
C7_BlankDateMarkerRejected ==
    [][(lastOp'.name = "handleAddDateMessage" /\ Trim(customDateText) = "") =>
          /\ state' = state
          /\ selectedParticipant' = selectedParticipant
          /\ customDateText' = customDateText
          /\ uuidCount' = uuidCount]_vars

\* the handler has just been called with a whitespace-only label
C7_Witness ==
    /\ lastOp.name = "handleAddDateMessage"
    /\ lastOp.arg = " "
    /\ customDateText = " "

\* C9: no command deletes, reorders or changes an existing message, and
\* sendMessage puts the new message last whatever its timestamp.
C9_AppendOnly ==
    [][/\ IsPrefix(state.messages, state'.messages)
       /\ lastOp'.name \in SendOps =>
             /\ Len(state'.messages) = Len(state.messages) + 1
             /\ state'.messages[Len(state'.messages)].id = uuidv4(uuidCount')
             /\ \A i \in 1 .. Len(state.messages) :
                    state.messages[i].id # uuidv4(uuidCount')]_vars

\* a message has just been sent whose timestamp is earlier than its
\* predecessor's, and it is last
C9_Witness ==
    /\ lastOp.name \in SendOps
    /\ Len(state.messages) >= 2
    /\ state.messages[Len(state.messages)].timestamp
           < state.messages[Len(state.messages) - 1].timestamp

\* what the chat container shows from top to bottom: "header" for an
\* automatic date header, "divider" for a system-date marker, "bubble"
RECURSIVE RenderedKinds(_)
RenderedKinds(groups) ==
    IF groups = <<>> THEN <<>>
    ELSE (IF Head(groups).header THEN <<"header">> ELSE <<>>)
         \o [i \in 1 .. Len(Head(groups).items) |-> Head(groups).items[i].kind]
         \o RenderedKinds(Tail(groups))

\* C13: for every message list and both values of showDateDividers the
\* rendered sequence never has two date headers (automatic headers or
\* system-date markers) back to back with no bubble between them.
C13_NoAdjacentHeaders ==
    LET kinds == RenderedKinds(rendered.groups)
    IN  \A i \in 1 .. Len(kinds) - 1 : kinds[i] = "bubble" \/ kinds[i + 1] = "bubble"

\* two markers in a row between two messages are rendered as one divider
C13_Witness ==
    /\ Len(props.messages) = 4
    /\ isSystemDateMessage(props.messages[2])
    /\ isSystemDateMessage(props.messages[3])
    /\ RenderedKinds(rendered.groups) = <<"bubble", "divider", "bubble">>

\* the positions of the list that survive the collapse of marker rows
Kept(messages) ==
    {i \in 1 .. Len(messages) :
        ~(/\ isSystemDateMessage(messages[i])
          /\ i > 1
          /\ isSystemDateMessage(messages[i - 1]))}

\* C14: when showDateDividers is false or the list has a system-date marker
\* there is exactly one group; it holds the collapsed messages in list order,
\* has no automatic date header, and shows every marker as an inline divider
\* at its own position.
C14_FlatMode ==
    ~Bucketed(props) =>
        /\ Len(messagesByDate(rendered.processed, props.showDateDividers)) = 1
        /\ ~rendered.empty =>
               LET items == rendered.groups[1].items
                   Pos(j) == FindIndexById(props.messages, items[j].id)
               IN  /\ Len(rendered.groups) = 1
                   /\ ~rendered.groups[1].header
                   /\ Len(items) = Cardinality(Kept(props.messages))
                   /\ {Pos(j) : j \in 1 .. Len(items)} = Kept(props.messages)
                   /\ \A j, k \in 1 .. Len(items) : j < k => Pos(j) < Pos(k)
                   /\ \A j \in 1 .. Len(items) :
                          /\ items[j].kind = "divider"
                                 <=> isSystemDateMessage(props.messages[Pos(j)])
                          /\ items[j].text = props.messages[Pos(j)].text

\* a marker between messages of two calendar days, date dividers switched on:
\* one group, the marker in second place
C14_Witness ==
    /\ props.showDateDividers
    /\ Len(props.messages) = 3
    /\ props.messages[1].timestamp \div 2 # props.messages[3].timestamp \div 2
    /\ Len(rendered.groups) = 1
    /\ ~rendered.groups[1].header
    /\ Len(rendered.groups[1].items) = 3
    /\ [i \in 1 .. 3 |-> rendered.groups[1].items[i].kind] = <<"bubble", "divider", "bubble">>

Unresolved(message) ==
    /\ ~isSystemDateMessage(message)
    /\ \A i \in 1 .. Len(props.participants) : props.participants[i].id # message.senderId

\* C18 as stated: a message whose sender is not a current participant is
\* rendered with a placeholder name and avatar wherever a message of a known
\* sender shows them.
C18_PlaceholderForUnknownSender ==
    \A k \in 1 .. Len(props.messages) :
        Unresolved(props.messages[k]) =>
            \E gi \in Bubbles :
                /\ Item(gi).id = props.messages[k].id
                /\ GroupRunStart(props, k) => Item(gi).avatar
                /\ (GroupRunStart(props, k) /\ props.mode = "group") => Item(gi).showName

\* C18 amended: a message whose sender is not a current participant is
\* rendered, as a bubble on the side of the others with its text and its
\* tail, with no sender name and no avatar at all.
C18_UnknownSenderBare ==
    \A k \in 1 .. Len(props.messages) :
        Unresolved(props.messages[k]) =>
            \E gi \in Bubbles :
                /\ Item(gi).id = props.messages[k].id
                /\ Item(gi).text = props.messages[k].text
                /\ ~Item(gi).isMe
                /\ ~Item(gi).showName
                /\ ~Item(gi).avatar
                /\ Item(gi).avatarKind = "none"
                /\ Item(gi).showTail <=> GroupRunStart(props, k)

\* the first message of the list is from a sender who is not a participant
C18_Witness ==
    /\ Len(props.messages) >= 1
    /\ Len(props.participants) = 1
    /\ props.messages[1].senderId = "p2"
    /\ \E gi \in Bubbles :
           /\ Item(gi).id = props.messages[1].id
           /\ Item(gi).showTail
           /\ ~Item(gi).avatar

\* C19: the empty state is shown exactly when the message list is empty: an
\* empty list gives the empty state and no group, a non-empty list (one made
\* of markers only included) gives at least one rendered item.
C19_EmptyState ==
    /\ rendered.empty <=> props.messages = <<>>
    /\ rendered.empty => rendered.groups = <<>>
    /\ props.messages # <<>> => Items # {}

\* a list of two markers and nothing else is rendered as one divider
C19_Witness ==
    /\ Len(props.messages) = 2
    /\ \A i \in 1 .. 2 : isSystemDateMessage(props.messages[i])
    /\ ~rendered.empty
    /\ RenderedKinds(rendered.groups) = <<"divider">>

\* C17: the preview of a reply whose target is in the list follows the type
\* of the target: "Voice message" for audio; the caption, or "Photo" when
\* there is none, for an image; for a text the whole text up to 50
\* characters, else its first 47 characters and "...": never more than 50.
C17_PreviewByType ==
    \A gi \in Bubbles :
        LET i == FindIndexById(props.messages, Shown(gi).replyToId)
            target == props.messages[i]
            preview == Item(gi).reply.preview
        IN  (Truthy(Shown(gi).replyToId) /\ i # 0) =>
                IF target.type = "audio" THEN preview = "Voice message"
                ELSE IF target.type = "image"
                     THEN preview = (IF target.imageCaption \in {Undefined, ""}
                                     THEN "Photo" ELSE target.imageCaption)
                ELSE /\ Len(preview) <= 50
                     /\ Len(target.text) <= 50 => preview = target.text
                     /\ Len(target.text) > 50 =>
                            /\ Len(preview) = 50
                            /\ SubSeq(preview, 1, 47) = SubSeq(target.text, 1, 47)
                            /\ SubSeq(preview, 48, 50) = "..."

\* a rendered reply to a text of 51 characters: 47 of them and an ellipsis
C17_Witness ==
    \E gi \in Bubbles :
        /\ Shown(gi).replyToId = "id-1"
        /\ Len(props.messages[1].text) = 51
        /\ Item(gi).reply.preview = SubSeq(Text50, 1, 47) \o "..."


Ids(st) == [i \in 1 .. Len(st.participants) |-> st.participants[i].id]

\* C15: updateParticipant(p) replaces exactly the participant whose id is
\* p.id and keeps the length and order of participants; when no participant
\* has that id nothing changes.
C15_UpdateReplacesInPlace ==
    [][lastOp'.name \in UpdateOps =>
          LET p == UpdatedParticipant(lastOp'.arg)
          IN  /\ Len(state'.participants) = Len(state.participants)
              /\ \A i \in 1 .. Len(state.participants) :
                     state'.participants[i] =
                         IF state.participants[i].id = p.id THEN p
                         ELSE state.participants[i]
              /\ state' = [state EXCEPT !.participants = state'.participants]
              /\ p.id \notin ParticipantIds(state) =>
                     state' = state /\ selectedParticipant' = selectedParticipant]_vars

\* the second of two participants has just been replaced, the first kept
C15_Witness ==
    /\ lastOp.name \in UpdateOps
    /\ Len(state.participants) = 2
    /\ state.participants[1].name = "Ann"
    /\ state.participants[2] = UpdatedParticipant(lastOp.arg)

\* C16: no two participants share an id, no command changes the id of a
\* participant, and a new participant gets an id that no participant, present
\* or removed, ever had.
C16_IdsUniqueNeverReused ==
    [][LET used == {uuidv4(n) : n \in 1 .. uuidCount}
       IN  /\ \A i, j \in 1 .. Len(state'.participants) :
                  i # j => state'.participants[i].id # state'.participants[j].id
           /\ ParticipantIds(state) \subseteq used
           /\ IF lastOp'.name \in AddOps
              THEN /\ uuidCount' = uuidCount + 1
                   /\ uuidv4(uuidCount') \notin used
                   /\ Ids(state') = Append(Ids(state), uuidv4(uuidCount'))
              ELSE IF lastOp'.name \in RemoveOps
              THEN Ids(state') = SelectSeq(Ids(state), LAMBDA id : id # lastOp'.arg)
              ELSE Ids(state') = Ids(state)]_vars

\* a participant has been added after the first one was removed
C16_Witness ==
    /\ lastOp.name \in AddOps
    /\ uuidCount >= 2
    /\ state.participants # <<>>
    /\ uuidv4(1) \notin ParticipantIds(state)

\* C20 as stated: in every reachable state the mode is "private" only if
\* there are exactly two participants.
C20_PrivateOnlyWithTwo ==
    state.chatSettings.mode = "private" => Len(state.participants) = 2

\* C21: a draft that lacks the sub-field its type requires is rejected, so
\* every audio message of the list has a non-empty audioDuration and every
\* image message a non-empty imageUrl, also when the user submits while the
\* read of the chosen image file is still pending.
C21_TypedFieldsPresent ==
    \A i \in 1 .. Len(state.messages) :
        /\ state.messages[i].type = "audio" => Truthy(state.messages[i].audioDuration)
        /\ state.messages[i].type = "image" => Truthy(state.messages[i].imageUrl)

\* C22 as stated: insertDateMarker with a non-empty label appends exactly one
\* message at the end of the list; its senderId is "system_date", its text
\* is the label, its type is text and it has no reply fields.
C22_DateMarkerAppended ==
    [][(lastOp'.name = "handleAddDateMessage" /\ Trim(customDateText) # "") =>
          /\ Len(state'.messages) = Len(state.messages) + 1
          /\ IsPrefix(state.messages, state'.messages)
          /\ LET m == state'.messages[Len(state'.messages)]
             IN  /\ m.senderId = SystemDate
                 /\ m.text = customDateText
                 /\ m.type = "text"
                 /\ m.replyToId = Undefined
                 /\ m.replyToPreview = Undefined
                 /\ m.replyToType = Undefined]_vars

\* C23: a submission of the add form with an empty or whitespace-only name
\* is rejected and changes nothing, and after every step every participant
\* has a name with something else than white space in it.
C23_BlankNameRejected ==
    [][/\ lastOp'.name = "onAddParticipant.rejected" =>
              /\ state' = state
              /\ selectedParticipant' = selectedParticipant
              /\ uuidCount' = uuidCount
       /\ \A i \in 1 .. Len(state'.participants) :
              Trim(state'.participants[i].name) # ""]_vars

\* a blank name has just been rejected while participants are listed
C23_Witness ==
    /\ lastOp.name = "onAddParticipant.rejected"
    /\ Len(state.participants) >= 2

\* C24: addParticipant puts the new participant last and leaves the other
\* participants, meId, messages, chatSettings and phoneStatus as they were;
\* the new participant is not "me".
C24_AddParticipantFrame ==
    [][lastOp'.name \in AddOps =>
          /\ Len(state'.participants) = Len(state.participants) + 1
          /\ IsPrefix(state.participants, state'.participants)
          /\ state'.meId = state.meId
          /\ state'.messages = state.messages
          /\ state'.chatSettings = state.chatSettings
          /\ state'.phoneStatus = state.phoneStatus
          /\ state'.participants[Len(state'.participants)].id # state'.meId]_vars

\* a participant has just been added to a conversation that has a "me" and
\* a message; and one has been added as the very first
C24_Witness ==
    /\ lastOp.name \in AddOps
    /\ state.meId # Null
    /\ state.messages # <<>>
    /\ Len(state.participants) = 2

\* C25 as stated: after a removeParticipant that leaves exactly two
\* participants the mode is "private".
C25_RemovalSwitchesToPrivate ==
    [][(lastOp'.name \in RemoveOps /\ Len(state'.participants) = 2) =>
          state'.chatSettings.mode = "private"]_vars

\* C25: removeParticipant leaves chatSettings, the mode included, as they
\* were, whatever number of participants it leaves; the switch to private
\* mode belongs to setAsMe alone.
C25_RemovalKeepsMode ==
    [][lastOp'.name \in RemoveOps =>
          state'.chatSettings = state.chatSettings]_vars

\* a removal has just left exactly two participants in group mode
C25_Witness ==
    /\ lastOp.name \in RemoveOps
    /\ Len(state.participants) = 2
    /\ state.chatSettings.mode = "group"

\* C26: the report of an avatar that failed to load, handled after any
\* number of other events, sets to null the avatar of the participant it
\* was raised for and changes nothing else of that participant; when that
\* participant has been removed in the meantime nothing changes at all.  It
\* never adds a participant and never changes another participant, meId,
\* the messages or the settings.
C26_AvatarErrorReport ==
    [][lastOp'.name = "img.onError" =>
          /\ Len(state'.participants) = Len(state.participants)
          /\ \A i \in 1 .. Len(state.participants) :
                 state'.participants[i] =
                     IF state.participants[i].id = lastOp'.arg
                     THEN [state.participants[i] EXCEPT !.avatar = Null]
                     ELSE state.participants[i]
          /\ state'.meId = state.meId
          /\ state'.messages = state.messages
          /\ state'.chatSettings = state.chatSettings
          /\ state'.phoneStatus = state.phoneStatus
          /\ lastOp'.arg \notin ParticipantIds(state) =>
                 state' = state /\ selectedParticipant' = selectedParticipant]_vars

\* a report has just been handled for a participant that was removed after
\* the report was raised, in a conversation with a participant and a message
C26_Witness ==
    /\ lastOp.name = "img.onError"
    /\ lastOp.arg \notin ParticipantIds(state)
    /\ state.participants # <<>>
    /\ state.messages # <<>>

\* C27 as stated: in both renderings a message is rendered as sequential
\* only if the message right before it in the collapsed message list is a
\* message, not a marker, of the same sender.
C27_SequentialAfterListNeighbour ==
    \A gi \in Bubbles :
        Item(gi).isSequential =>
            LET k == FindIndexById(rendered.processed, Item(gi).id)
            IN  /\ k > 1
                /\ ~isSystemDateMessage(rendered.processed[k - 1])
                /\ rendered.processed[k - 1].senderId = rendered.processed[k].senderId

\* C27 amended: a message is rendered as sequential only if the item
\* rendered right above it in its render group is a message, not a marker,
\* of the same sender; in the flat rendering that item is the message right
\* before it in the collapsed message list.
C27_SequentialAfterGroupNeighbour ==
    \A gi \in Bubbles :
        Item(gi).isSequential =>
            /\ gi[2] > 1
            /\ LET above == <<gi[1], gi[2] - 1>>
               IN  /\ Item(above).kind = "bubble"
                   /\ Shown(above).senderId = Shown(gi).senderId
                   /\ ~Bucketed(props) =>
                          FindIndexById(rendered.processed, Item(above).id) =
                              FindIndexById(rendered.processed, Item(gi).id) - 1

\* date buckets: a message is sequential although the message before it in
\* the list, of another date, has another sender
C27_Witness ==
    /\ Bucketed(props)
    /\ \E gi \in Bubbles :
           LET k == FindIndexById(rendered.processed, Item(gi).id)
           IN  /\ Item(gi).isSequential
               /\ k > 1
               /\ rendered.processed[k - 1].senderId # rendered.processed[k].senderId

\* C28: whatever the list and showDateDividers, every message of the
\* collapsed list is rendered once, in one render group, nothing else is
\* rendered, and the items of a group are in the order of the list.
C28_GroupsPartitionList ==
    ~rendered.empty =>
        /\ \A k \in 1 .. Len(rendered.processed) :
               Cardinality({gi \in Items : Item(gi).id = rendered.processed[k].id}) = 1
        /\ Cardinality(Items) = Len(rendered.processed)
        /\ \A gi, gj \in Items :
               (gi[1] = gj[1] /\ gi[2] < gj[2]) =>
                   FindIndexById(rendered.processed, Item(gi).id) <
                       FindIndexById(rendered.processed, Item(gj).id)

\* two date buckets, the first with two messages that the message of the
\* second bucket separates in the list
C28_Witness ==
    /\ Len(props.messages) = 3
    /\ Len(rendered.groups) = 2
    /\ Len(rendered.groups[1].items) = 2
    /\ rendered.groups[1].items[2].id = props.messages[3].id
    /\ rendered.groups[2].items[1].id = props.messages[2].id

\* C29: in App, after every add, remove, update, avatar report, sender
\* selection and send, the selected sender is none or equal, in id, name and
\* avatar, to a participant of the list; a message that has just been sent
\* carries the id of a participant of the list.
C29_SelectedSenderListed ==
    [][/\ \/ selectedParticipant' = NullParticipant
          \/ \E i \in 1 .. Len(state'.participants) :
                 state'.participants[i] = selectedParticipant'
       /\ lastOp'.name = "handleMessageSend" =>
              /\ state'.messages[Len(state'.messages)].senderId \in ParticipantIds(state)
              /\ state'.messages[Len(state'.messages)].senderId = selectedParticipant.id]_vars

\* a message has just been sent by a selected sender whose record was
\* replaced by an update, while another participant was removed before
C29_Witness ==
    /\ lastOp.name = "handleMessageSend"
    /\ selectedParticipant.name = "Eve"
    /\ Len(state.participants) = 1
    /\ uuidCount = 3

\* C30: a reply created through the chat input keeps, as replyToPreview,
\* the preview the render derives from its target, and as replyToType the
\* type of its target, in every state in which the target is in the list.
C30_CachedPreviewIsLive ==
    \A gi \in Bubbles :
        LET i == getRepliedMessage(props.messages, Shown(gi).replyToId)
        IN  (Truthy(Shown(gi).replyToId) /\ i # 0) =>
                /\ Item(gi).reply.shown
                /\ Item(gi).reply.preview = Shown(gi).replyToPreview
                /\ Shown(gi).replyToType = props.messages[i].type

\* a reply to a text of 51 characters, rendered after a further message was
\* sent: the cached preview is the 47 characters and the ellipsis shown
C30_Witness ==
    /\ Len(props.messages) >= 3
    /\ Len(props.messages[1].text) = 51
    /\ props.messages[2].replyToId = props.messages[1].id
    /\ props.messages[2].replyToPreview = SubSeq(Text50, 1, 47) \o "..."
    /\ \E gi \in Bubbles :
           /\ Item(gi).id = props.messages[2].id
           /\ Item(gi).reply.preview = SubSeq(Text50, 1, 47) \o "..."

\* C12: an import leaves unchanged every current value whose field the
\* document does not have; in particular the chat background when the
\* document has no chatBackground.
C12_ImportKeepsAbsentFields ==
    [][lastOp'.name = "importDocument" =>
          LET doc == lastOp'.arg
          IN  /\ ~doc.chatBackground.present => chatBackground' = chatBackground
              /\ ~doc.showDateDividers.present => showDateDividers' = showDateDividers
              /\ \A f \in {"participants", "messages", "chatSettings", "meId", "phoneStatus"} :
                     ~doc[f].present => state'[f] = state[f]]_vars

\* a document with participants and no chatBackground has been imported
\* while a background was configured
C12_Witness ==
    /\ lastOp.name = "importDocument"
    /\ ~lastOp.arg.chatBackground.present
    /\ lastOp.arg.participants.present
    /\ state.participants = PreviewParticipants
    /\ chatBackground = "bg.png"

\* C11 as stated: loading from slots that are absent or malformed never
\* fails; the session starts with the default conversation, and a preference
\* whose slot is absent or malformed has its default value.
C11_LoadNeverFails ==
    lastOp.name \in {"reload", "reload.threw"} =>
        /\ lastOp.name = "reload"
        /\ state = InitialState
        /\ (localStorage.darkMode = Null \/ ~JSONparse(localStorage.darkMode).ok)
               => darkMode = TRUE

\* C10 as stated: the conversation a session ends with is the conversation
\* the next session starts with.
C10_ConversationRestored ==
    [][lastOp'.name = "reload" => state' = state]_vars

====
